---------------------------- MODULE Spec2Model ----------------------------
(***************************************************************************)
(* State-machine model of the component registry: the Stepper, the         *)
(* ButtonGroup, the ListItem, the map context hooks and the Map widget     *)
(* with its MapRoute and MapClusterLayer children driving a mapping        *)
(* engine.  Each component family has its own specification over the       *)
(* shared variables; the variables of the other families stay idle.        *)
(***************************************************************************)
EXTENDS Integers, Sequences, FiniteSets, TLC

VARIABLES
    \* ---- Stepper (src/unnamed/part_000 lines 7-81)
    valueProp,      \* the `value` prop handed to Stepper, NoValue when omitted
    activeStep,     \* useState(value): the internal active step
    syncPending,    \* the [value] effect is scheduled and has not run yet
    itemDisabled,   \* StepperItem value -> its `disabled` prop ("true"/"false"/"undef")
    stepAttrs,      \* StepperItem value -> data-active/-completed/-disabled as rendered
    onChangeArg,    \* argument of the last onChange call, NoValue when none yet
    stepperLast,    \* the last Stepper operation that ran
    inStepper,      \* the StepperItems are rendered inside a Stepper
    lastClicked,    \* the value of the StepperItem clicked by the last operation
    onChangeCalls,  \* how many times the last operation called onChange
    \* ---- ButtonGroup (src/unnamed/part_000 lines 181-223)
    bgChildren,     \* the children prop: a sequence of child kinds
    bgPill,         \* the pill variant prop ("true"/"false"/"undef")
    bgOut,          \* the rendered child nodes, in order
    \* ---- ListItem (src/apps/www/registry/creative-tim/ui/list.tsx)
    liProps,        \* item -> its props
    liOut,          \* item -> what it rendered
    \* ---- context hooks (useMap, MarkerPopup, MarkerTooltip)
    ctxPath,        \* the ancestors of the probe position, outermost first
    leafKind,       \* the component last rendered at the probe position
    leafResult,     \* "none", "rendered" or the message of the Error it threw
    leafCtx,        \* what useMap() returned to it
    \* ---- Map, MapRoute, MapClusterLayer (src/unnamed/part_000 lines 412-1292)
    mapMounted,     \* the Map component is mounted
    mounts,         \* how many times a Map has been mounted
    mapInstance,    \* mapInstance.current: "null" or "engine"
    isLoaded,       \* useState(false): the isLoaded state of Map
    mapCtx,         \* the MapContext value of the last render of Map
    engine,         \* the engine object made by the last `new maplibregl.Map`
    engineCreated,  \* number of engine instances constructed
    engineRemoved,  \* number of remove() calls made on engine instances
    removeOutcome,  \* how the last remove() call ended, "none" before any
    errLogged,      \* the last Map cleanup called console.error
    uncaught,       \* an error escaped from a Map cleanup
    route,          \* the MapRoute child
    cluster,        \* the MapClusterLayer child
    pending,        \* children whose effect cleanup the current commit still runs
    cleanupErrors,  \* components whose effect cleanup threw
    invoked,        \* the listeners the last engine event called
    docTheme,       \* "dark" when document.documentElement has class 'dark'
    styles,         \* the `styles` prop of the mounted Map
    observing,      \* the MutationObserver of the theme effect is connected
    \* ---- Toaster (src/apps/www/registry/creative-tim/ui/sonner.tsx)
    tsAmbient,      \* the theme useTheme() returns, "undef" when it has none
    tsProps,        \* the props handed to Toaster
    tsOut,          \* the props Toaster hands to the toast engine
    \* ---- MapMarker, MarkerPopup (src/unnamed/part_000 lines 522-719)
    mk,             \* the MapMarker: props, refs, rendered context value
    mp,             \* the MarkerPopup child of the MapMarker
    mapMarkers,     \* the engine markers attached to the map, with their positions
    markersMade,    \* number of engine markers constructed
    mkPeak,         \* most engine markers attached at once, within any step
    \* ---- MapPopup (src/unnamed/part_000 lines 959-1012)
    pp,             \* the MapPopup: props, refs, where its children are rendered
    mapPopups,      \* the engine popups attached to the map, with their positions
    popupsMade,     \* number of engine popups constructed
    ppPeak,         \* most engine popups attached at once, within any step
    \* ---- several MapClusterLayers (src/unnamed/part_000 lines 1121-1292)
    clEngine,       \* the engine of the loaded Map they share
    cls,            \* MapClusterLayer -> its state
    clRuns,         \* number of MapClusterLayer effect runs so far
    clDupAdd,       \* the last effect run called addSource for an id already present
    clErrors        \* the MapClusterLayers whose effect or cleanup threw

stepperVars == <<valueProp, activeStep, syncPending, itemDisabled, stepAttrs,
                 onChangeArg, stepperLast, inStepper, lastClicked, onChangeCalls>>
bgVars == <<bgChildren, bgPill, bgOut>>
liVars == <<liProps, liOut>>
ctxVars == <<ctxPath, leafKind, leafResult, leafCtx>>

mapVars == <<mapMounted, mounts, mapInstance, isLoaded, mapCtx, engine,
             engineCreated, engineRemoved, removeOutcome, errLogged, uncaught,
             route, cluster, pending, cleanupErrors, invoked,
             docTheme, styles, observing>>

\* What the theme handling of Map reads and writes besides the engine.
themeVars == <<docTheme, styles, observing>>

tsVars == <<tsAmbient, tsProps, tsOut>>

mkVars == <<mk, mp, mapMarkers, markersMade, mkPeak>>

ppVars == <<pp, mapPopups, popupsMade, ppPeak>>

clVars == <<clEngine, cls, clRuns, clDupAdd, clErrors>>

vars == <<stepperVars, bgVars, liVars, ctxVars, mapVars, tsVars, mkVars, ppVars, clVars>>

\* ------------------------------------------------------------------------
\* Shared helpers
\* ------------------------------------------------------------------------

\* An optional boolean prop: "undef" is a prop that was not passed.
OptBool == {"true", "false", "undef"}

\* JavaScript truthiness of an optional boolean prop.
Truthy(p) == p = "true"

\* ------------------------------------------------------------------------
\* Stepper
\* ------------------------------------------------------------------------

MaxStep == 3
Steps == 0..MaxStep

\* `undefined` for a numeric prop or argument.
NoValue == -1

\* `value = 0` in the parameter list: an omitted value prop reads as 0.
StepperValue(p) == IF p = NoValue THEN 0 ELSE p

StepperItem_CompletedInclusive(a, v, d) ==
    [active |-> a = v, completed |-> a >= v, disabled |-> Truthy(d) \/ a < v]

\* const isActive = activeStep === value; isCompleted = activeStep > value;
\* isDisabled = disabled || activeStep < value
StepperItem(a, v, d) ==
    [active |-> a = v, completed |-> a > v, disabled |-> Truthy(d) \/ a < v]

\* The attributes every StepperItem shows after a render with active step a.
StepperRender(a, dis) == [v \in Steps |-> StepperItem(a, v, dis[v])]

\* React.createContext({ activeStep: 0 }): what a StepperItem reads when no
\* Stepper is above it, and the Provider value of a Stepper otherwise.
StepperContext(inside, a) ==
    IF inside THEN [activeStep |-> a, hasSetter |-> TRUE]
    ELSE [activeStep |-> 0, hasSetter |-> FALSE]

StepperInit ==
    /\ inStepper \in BOOLEAN
    /\ valueProp \in (IF inStepper THEN {NoValue} \cup Steps ELSE {NoValue})
    /\ activeStep = StepperValue(valueProp)
    /\ syncPending = FALSE
    /\ itemDisabled \in [Steps -> OptBool]
    /\ stepAttrs = StepperRender(StepperContext(inStepper, activeStep).activeStep,
                                 itemDisabled)
    /\ onChangeArg = NoValue
    /\ stepperLast = "mount"
    /\ lastClicked = NoValue
    /\ onChangeCalls = 0

\* The parent passes another value prop; the [value] effect is scheduled
\* when the value it reads differs from the one of the previous render.
StepperValueChange(n) ==
    /\ inStepper
    /\ n # valueProp
    /\ valueProp' = n
    /\ syncPending' = (syncPending \/ StepperValue(n) # StepperValue(valueProp))
    /\ stepAttrs' = StepperRender(activeStep, itemDisabled)
    /\ stepperLast' = "value"
    /\ lastClicked' = NoValue
    /\ onChangeCalls' = 0
    /\ UNCHANGED <<activeStep, itemDisabled, onChangeArg, inStepper>>

StepperSyncEffect_Skip ==
    /\ inStepper
    /\ syncPending
    /\ syncPending' = FALSE
    /\ stepperLast' = "sync"
    /\ lastClicked' = NoValue
    /\ onChangeCalls' = 0
    /\ UNCHANGED <<valueProp, activeStep, itemDisabled, stepAttrs, onChangeArg,
                   inStepper>>

\* useEffect(() => { if (value !== undefined) setActiveStep(value) }, [value])
StepperSyncEffect ==
    /\ inStepper
    /\ syncPending
    /\ syncPending' = FALSE
    /\ activeStep' = IF StepperValue(valueProp) # NoValue
                     THEN StepperValue(valueProp) ELSE activeStep
    /\ stepAttrs' = StepperRender(activeStep', itemDisabled)
    /\ stepperLast' = "sync"
    /\ lastClicked' = NoValue
    /\ onChangeCalls' = 0
    /\ UNCHANGED <<valueProp, itemDisabled, onChangeArg, inStepper>>

StepperItemClick_IgnoreDisabled(v) ==
    /\ IF StepperContext(inStepper, activeStep).hasSetter
       THEN /\ activeStep' = v
            /\ onChangeArg' = v
            /\ onChangeCalls' = 1
       ELSE /\ UNCHANGED <<activeStep, onChangeArg>>
            /\ onChangeCalls' = 0
    /\ stepAttrs' = StepperRender(StepperContext(inStepper, activeStep').activeStep,
                                  itemDisabled)
    /\ stepperLast' = "click"
    /\ lastClicked' = v
    /\ UNCHANGED <<valueProp, syncPending, itemDisabled, inStepper>>

\* onClick={() => !isDisabled && setActiveStep?.(value)} with
\* handleStepChange = step => { setActiveStep(step); onChange?.(step) };
\* outside a Stepper the context has no setActiveStep.
StepperItemClick(v) ==
    /\ IF ~stepAttrs[v].disabled /\ StepperContext(inStepper, activeStep).hasSetter
       THEN /\ activeStep' = v
            /\ onChangeArg' = v
            /\ onChangeCalls' = 1
       ELSE /\ UNCHANGED <<activeStep, onChangeArg>>
            /\ onChangeCalls' = 0
    /\ stepAttrs' = StepperRender(StepperContext(inStepper, activeStep').activeStep,
                                  itemDisabled)
    /\ stepperLast' = "click"
    /\ lastClicked' = v
    /\ UNCHANGED <<valueProp, syncPending, itemDisabled, inStepper>>

\* The parent passes another `disabled` prop to one StepperItem.
StepperItemSetDisabled(v, d) ==
    /\ d # itemDisabled[v]
    /\ itemDisabled' = [itemDisabled EXCEPT ![v] = d]
    /\ stepAttrs' = StepperRender(StepperContext(inStepper, activeStep).activeStep,
                                  itemDisabled')
    /\ stepperLast' = "disabled"
    /\ lastClicked' = NoValue
    /\ onChangeCalls' = 0
    /\ UNCHANGED <<valueProp, activeStep, syncPending, onChangeArg, inStepper>>

StepperNext ==
    \/ \E n \in {NoValue} \cup Steps : StepperValueChange(n)
    \/ StepperSyncEffect
    \/ \E v \in Steps : StepperItemClick(v)
    \/ \E v \in Steps, d \in OptBool : StepperItemSetDisabled(v, d)

\* ------------------------------------------------------------------------
\* cn: the class-name helper of lib/utils
\* ------------------------------------------------------------------------

\* One argument of cn: `cond && "classes"` contributes its classes when
\* cond is truthy and nothing otherwise.
ClassIf(cond, classes) == IF cond THEN classes ELSE {}

\* cn(...args): the classes of its truthy arguments.
cn(args) == UNION args

\* ------------------------------------------------------------------------
\* ButtonGroup
\* ------------------------------------------------------------------------

MaxChildren == 3

\* What conditional rendering puts in a children list: `cond && <Button/>`
\* leaves null / false, besides elements and text.
ChildKinds == {"null", "false", "button", "text"}

\* React.isValidElement(child)
IsValidElement(kind) == kind = "button"

\* React.Children.count(children): empty nodes (null, undefined, booleans),
\* strings and elements all count as individual nodes.
ChildrenCount(children) == Len(children)

ButtonClasses_LastOnly(index, count, pill) ==
    cn({ ClassIf(index = count - 1, {"rounded-l-md"}),
         ClassIf(index = count - 1, {"rounded-r-md"}),
         ClassIf(index # 0 /\ index # count - 1, {"rounded-none"}),
         ClassIf(Truthy(pill) /\ index = 0, {"rounded-l-full"}),
         ClassIf(Truthy(pill) /\ index = count - 1, {"rounded-r-full"}),
         ClassIf(index # 0, {"border-l-0"}) })

\* The className given to the cloned child at `index` (0-based, as React
\* passes it to the map callback).
ButtonClasses(index, count, pill) ==
    cn({ ClassIf(index = 0, {"rounded-l-md"}),
         ClassIf(index = count - 1, {"rounded-r-md"}),
         ClassIf(index # 0 /\ index # count - 1, {"rounded-none"}),
         ClassIf(Truthy(pill) /\ index = 0, {"rounded-l-full"}),
         ClassIf(Truthy(pill) /\ index = count - 1, {"rounded-r-full"}),
         ClassIf(index # 0, {"border-l-0"}) })

\* The callback of React.Children.map: an element is cloned with the
\* positional classes, anything else is returned as it is.
ButtonGroupChild(kind, index, count, pill) ==
    IF IsValidElement(kind)
    THEN [kind |-> kind, classes |-> ButtonClasses(index, count, pill)]
    ELSE [kind |-> kind, classes |-> {}]

\* The nodes a kind renders to: null and false render nothing.
Renders(kind) == kind \in {"button", "text"}

\* React.Children.map(children, fn): fn is called for every node with a
\* running index that also counts the empty nodes.
ButtonGroup(children, pill) ==
    LET mapped == [i \in 1..Len(children) |->
                     ButtonGroupChild(children[i], i - 1,
                                      ChildrenCount(children), pill)]
        Shown(n) == Renders(n.kind)
    IN SelectSeq(mapped, Shown)

ButtonGroupInit ==
    /\ bgChildren = <<>>
    /\ bgPill = "undef"
    /\ bgOut = ButtonGroup(bgChildren, bgPill)

\* The parent re-renders the group with one more child at the end.
ButtonGroupAppend(kind) ==
    /\ Len(bgChildren) < MaxChildren
    /\ bgChildren' = Append(bgChildren, kind)
    /\ bgOut' = ButtonGroup(bgChildren', bgPill)
    /\ UNCHANGED bgPill

\* The parent re-renders the group without its first child.
ButtonGroupDropFirst ==
    /\ bgChildren # <<>>
    /\ bgChildren' = Tail(bgChildren)
    /\ bgOut' = ButtonGroup(bgChildren', bgPill)
    /\ UNCHANGED bgPill

\* The parent re-renders the group with another pill prop.
ButtonGroupSetPill(p) ==
    /\ p # bgPill
    /\ bgPill' = p
    /\ bgOut' = ButtonGroup(bgChildren, bgPill')
    /\ UNCHANGED bgChildren

ButtonGroupNext ==
    \/ \E kind \in ChildKinds : ButtonGroupAppend(kind)
    \/ ButtonGroupDropFirst
    \/ \E p \in OptBool : ButtonGroupSetPill(p)

\* ------------------------------------------------------------------------
\* ListItem
\* ------------------------------------------------------------------------

NumItems == 2
Items == 1..NumItems

\* The className values a caller passes in this model.
ListClassNames == {{}, {"my-item"}}

ListItemProps ==
    [asChild : OptBool, selected : OptBool, disabled : OptBool,
     className : ListClassNames]

\* `prop = false` in the parameter list.
DefaultFalse(p) == IF p = "undef" THEN FALSE ELSE Truthy(p)

ListItemBase ==
    {"flex", "items-center", "gap-3", "rounded-md", "px-3", "py-2", "text-sm",
     "transition-colors", "hover:bg-accent", "hover:text-accent-foreground",
     "focus-visible:ring-ring", "focus-visible:ring-2",
     "focus-visible:ring-offset-2", "focus-visible:outline-none"}

SelectedClasses == {"bg-accent", "text-accent-foreground"}
DisabledClasses == {"pointer-events-none", "opacity-50"}

ListItem_DisabledDimsSelected(p) ==
    LET asChild == DefaultFalse(p.asChild)
        selected == DefaultFalse(p.selected)
        disabled == DefaultFalse(p.disabled)
    IN [comp |-> IF asChild THEN "Slot" ELSE "li",
        dataSelected |-> selected,
        dataDisabled |-> disabled,
        classes |-> cn({ ListItemBase,
                         ClassIf(selected /\ ~disabled, SelectedClasses),
                         ClassIf(disabled, DisabledClasses),
                         p.className })]

ListItem(p) ==
    LET asChild == DefaultFalse(p.asChild)
        selected == DefaultFalse(p.selected)
        disabled == DefaultFalse(p.disabled)
    IN [comp |-> IF asChild THEN "Slot" ELSE "li",
        dataSelected |-> selected,
        dataDisabled |-> disabled,
        classes |-> cn({ ListItemBase,
                         ClassIf(selected, SelectedClasses),
                         ClassIf(disabled, DisabledClasses),
                         p.className })]

ListInit ==
    /\ liProps = [i \in Items |->
                    [asChild |-> "undef", selected |-> "undef",
                     disabled |-> "undef", className |-> {}]]
    /\ liOut = [i \in Items |-> ListItem(liProps[i])]

\* The parent re-renders item i with another `selected` prop.
ListItemSelect(i, s) ==
    /\ s # liProps[i].selected
    /\ liProps' = [liProps EXCEPT ![i].selected = s]
    /\ liOut' = [liOut EXCEPT ![i] = ListItem(liProps'[i])]

\* The parent re-renders item i with another `disabled` prop.
ListItemDisable(i, d) ==
    /\ d # liProps[i].disabled
    /\ liProps' = [liProps EXCEPT ![i].disabled = d]
    /\ liOut' = [liOut EXCEPT ![i] = ListItem(liProps'[i])]

\* The parent re-renders item i with another `asChild` prop.
ListItemSetAsChild(i, a) ==
    /\ a # liProps[i].asChild
    /\ liProps' = [liProps EXCEPT ![i].asChild = a]
    /\ liOut' = [liOut EXCEPT ![i] = ListItem(liProps'[i])]

\* The parent re-renders item i with another className.
ListItemSetClassName(i, c) ==
    /\ c # liProps[i].className
    /\ liProps' = [liProps EXCEPT ![i].className = c]
    /\ liOut' = [liOut EXCEPT ![i] = ListItem(liProps'[i])]

ListNext ==
    \/ \E i \in Items, s \in OptBool : ListItemSelect(i, s)
    \/ \E i \in Items, d \in OptBool : ListItemDisable(i, d)
    \/ \E i \in Items, a \in OptBool : ListItemSetAsChild(i, a)
    \/ \E i \in Items, c \in ListClassNames : ListItemSetClassName(i, c)

\* ------------------------------------------------------------------------
\* Context hooks: useMap, MarkerPopup, MarkerTooltip
\* ------------------------------------------------------------------------

MaxDepth == 3

AncestorTypes == {"Map", "MapMarker", "div"}
LeafKinds == {"useMap", "MarkerPopup", "MarkerTooltip"}

\* React.createContext<MapContextValue>({ map: null, isLoaded: false })
DefaultMapContext == [isNull |-> FALSE, map |-> "null", isLoaded |-> FALSE]

\* React.createContext<MarkerContextValue | null>(null)
DefaultMarkerContext == [isNull |-> TRUE, marker |-> "null", markerElement |-> "null"]

\* No useMap() result recorded.
NoContext == [isNull |-> TRUE, map |-> "null", isLoaded |-> FALSE]

\* An ancestor as first rendered: a Map before its initialize effect, a
\* MapMarker before its effect created the marker element.
FreshAncestor(t) ==
    [type |-> t,
     st |-> CASE t = "Map" -> "fresh" [] t = "MapMarker" -> "pending" [] OTHER -> "-"]

\* <MapContext.Provider value={{ map: mapInstance.current, isLoaded }}>
MapProvides(a) ==
    [isNull |-> FALSE,
     map |-> IF a.st = "fresh" THEN "null" ELSE "engine",
     isLoaded |-> a.st = "loaded"]

\* <MarkerContext.Provider value={{ marker, markerElement }}>
MarkerProvides(a) ==
    [isNull |-> FALSE, marker |-> "marker", markerElement |-> "el"]

RECURSIVE UseMapContext(_)
\* React.useContext(MapContext) below the ancestors `path`: the value of
\* the nearest provider, or the default of createContext.
UseMapContext(path) ==
    IF path = <<>> THEN DefaultMapContext
    ELSE LET a == path[Len(path)]
         IN IF a.type = "Map" THEN MapProvides(a)
            ELSE UseMapContext(SubSeq(path, 1, Len(path) - 1))

RECURSIVE UseMarkerContext(_)
\* React.useContext(MarkerContext) below the ancestors `path`.
UseMarkerContext(path) ==
    IF path = <<>> THEN DefaultMarkerContext
    ELSE LET a == path[Len(path)]
         IN IF a.type = "MapMarker" /\ a.st = "ready" THEN MarkerProvides(a)
            ELSE UseMarkerContext(SubSeq(path, 1, Len(path) - 1))

\* if (!context) throw new Error(...); return context
useMap(context) ==
    IF context.isNull
    THEN [threw |-> "useMap must be used within a Map component", value |-> NoContext]
    ELSE [threw |-> "", value |-> context]

\* Whether ancestor a, placed below `before`, renders its children:
\* Map: {isLoaded && children}; MapMarker: null unless isLoaded and the
\* marker element exists.
RendersChildren(a, before) ==
    CASE a.type = "Map" -> a.st = "loaded"
      [] a.type = "MapMarker" ->
            useMap(UseMapContext(before)).value.isLoaded /\ a.st = "ready"
      [] OTHER -> TRUE

\* The probe position below `path` is rendered at all.
Rendered(path) ==
    \A i \in 1..Len(path) : RendersChildren(path[i], SubSeq(path, 1, i - 1))

\* A component that only calls useMap().
UseMapCaller(path) ==
    LET m == useMap(UseMapContext(path))
    IN [result |-> IF m.threw # "" THEN m.threw ELSE "rendered", ctx |-> m.value]

MarkerPopup_ReturnNull(path) ==
    LET context == UseMarkerContext(path)
        m == useMap(UseMapContext(path))
    IN [result |-> IF m.threw # "" THEN m.threw ELSE "rendered", ctx |-> m.value]

\* const context = useContext(MarkerContext); const { map } = useMap();
\* if (!context) throw new Error("MarkerPopup must be used within a MapMarker")
MarkerPopup(path) ==
    LET context == UseMarkerContext(path)
        m == useMap(UseMapContext(path))
    IN [result |-> IF m.threw # "" THEN m.threw
                   ELSE IF context.isNull
                        THEN "MarkerPopup must be used within a MapMarker"
                        ELSE "rendered",
        ctx |-> m.value]

\* if (!context) throw new Error("MarkerTooltip must be used within a MapMarker")
MarkerTooltip(path) ==
    LET context == UseMarkerContext(path)
        m == useMap(UseMapContext(path))
    IN [result |-> IF m.threw # "" THEN m.threw
                   ELSE IF context.isNull
                        THEN "MarkerTooltip must be used within a MapMarker"
                        ELSE "rendered",
        ctx |-> m.value]

CtxInit ==
    /\ ctxPath = <<>>
    /\ leafKind = "none"
    /\ leafResult = "none"
    /\ leafCtx = NoContext

ClearLeaf ==
    /\ leafKind' = "none"
    /\ leafResult' = "none"
    /\ leafCtx' = NoContext

\* A component of type t is rendered as the innermost ancestor.
CtxWrap(t) ==
    /\ Len(ctxPath) < MaxDepth
    /\ Rendered(ctxPath)
    /\ ctxPath' = Append(ctxPath, FreshAncestor(t))
    /\ ClearLeaf

\* The innermost ancestor is unmounted.
CtxUnwrap ==
    /\ ctxPath # <<>>
    /\ ctxPath' = SubSeq(ctxPath, 1, Len(ctxPath) - 1)
    /\ ClearLeaf

\* Map i re-renders after its initialize effect stored the engine.
CtxMapRerender(i) ==
    /\ ctxPath[i].type = "Map" /\ ctxPath[i].st = "fresh"
    /\ ctxPath' = [ctxPath EXCEPT ![i].st = "created"]
    /\ ClearLeaf

\* The engine of Map i fires 'load': setIsLoaded(true) and a re-render.
CtxMapLoad(i) ==
    /\ ctxPath[i].type = "Map" /\ ctxPath[i].st \in {"fresh", "created"}
    /\ ctxPath' = [ctxPath EXCEPT ![i].st = "loaded"]
    /\ ClearLeaf

\* The effect of MapMarker i: if (!map || !isLoaded) return; otherwise it
\* creates the marker element and forces a re-render.
CtxMarkerEffect(i) ==
    /\ ctxPath[i].type = "MapMarker" /\ ctxPath[i].st = "pending"
    /\ LET c == useMap(UseMapContext(SubSeq(ctxPath, 1, i - 1))).value
       IN c.map # "null" /\ c.isLoaded
    /\ ctxPath' = [ctxPath EXCEPT ![i].st = "ready"]
    /\ ClearLeaf

\* A component of kind k is rendered at the probe position.
CtxRenderLeaf(k) ==
    /\ Rendered(ctxPath)
    /\ LET r == CASE k = "useMap" -> UseMapCaller(ctxPath)
                  [] k = "MarkerPopup" -> MarkerPopup(ctxPath)
                  [] OTHER -> MarkerTooltip(ctxPath)
       IN /\ leafKind' = k
          /\ leafResult' = r.result
          /\ leafCtx' = r.ctx
    /\ UNCHANGED ctxPath

CtxNext ==
    \/ \E t \in AncestorTypes : CtxWrap(t)
    \/ CtxUnwrap
    \/ \E i \in 1..Len(ctxPath) : CtxMapRerender(i)
    \/ \E i \in 1..Len(ctxPath) : CtxMapLoad(i)
    \/ \E i \in 1..Len(ctxPath) : CtxMarkerEffect(i)
    \/ \E k \in LeafKinds : CtxRenderLeaf(k)

\* ------------------------------------------------------------------------
\* The mapping engine, as the components use it
\* ------------------------------------------------------------------------

MaxMounts == 2
MaxRuns == 2

\* An engine right after `new maplibregl.Map(...)`: its style has no layer
\* or source of the components yet and no listener is registered.
NewEngine(styleUrl) ==
    [styleGone |-> FALSE, loaded |-> FALSE, loadedLate |-> FALSE,
     style |-> styleUrl, layers |-> {}, sources |-> {}, listeners |-> {}]

\* Before the first mount there is no engine; the record is a placeholder.
NoEngine == [NewEngine("none") EXCEPT !.styleGone = TRUE]

\* map.setStyle(url): the style is replaced; the layers and sources that
\* were added to the previous style at run time are not part of the new
\* one.  Listeners are registered on the map, not on the style, and stay.
SetStyle(e, styleUrl) ==
    [e EXCEPT !.style = styleUrl, !.layers = {}, !.sources = {}]

\* How map.remove() can end: normally, by throwing an Error whose message
\* contains "aborted", by throwing another Error, or by throwing a value
\* that is not an Error.
RemoveOutcomes == {"ok", "aborted", "error", "nonerror"}

\* map.remove() deletes the style of the engine; a remove() that threw may
\* have stopped before or after doing so.
EngineRemove(e, gone) ==
    IF gone
    THEN [e EXCEPT !.styleGone = TRUE, !.layers = {}, !.sources = {}]
    ELSE e

\* map.getLayer / map.getSource read the style: they throw a TypeError on
\* an engine whose style is gone.
StyleCallThrows(e) == e.styleGone

\* map.on(type, layerId, fn): a delegated listener; every call registers a
\* new one, and neither removeLayer nor removeSource unregisters it.
Listener(type, layer, owner, fn, run) ==
    [type |-> type, layer |-> layer, owner |-> owner, fn |-> fn, run |-> run]

\* ------------------------------------------------------------------------
\* Map
\* ------------------------------------------------------------------------

DEFAULT_LIGHT_STYLE == "https://tiles.openfreemap.org/styles/positron"
DEFAULT_DARK_STYLE == "https://tiles.openfreemap.org/styles/dark"

Themes == {"light", "dark"}

\* The `styles` props a Map is given in this model; "undef" is a missing
\* field (or a missing prop), which `||` replaces by the default.
NoStyles == [light |-> "undef", dark |-> "undef"]
StylesProps == {NoStyles, [light |-> "undef", dark |-> "my-dark"]}

StyleUrl_AlwaysLight(theme, st) ==
    IF st.light # "undef" THEN st.light ELSE DEFAULT_LIGHT_STYLE

\* theme === "dark" ? styles?.dark || DEFAULT_DARK_STYLE
\*                  : styles?.light || DEFAULT_LIGHT_STYLE
StyleUrl(theme, st) ==
    IF theme = "dark"
    THEN (IF st.dark # "undef" THEN st.dark ELSE DEFAULT_DARK_STYLE)
    ELSE (IF st.light # "undef" THEN st.light ELSE DEFAULT_LIGHT_STYLE)

MapCleanup_NoRemove(inst, o, gone) ==
    IF inst = "null"
    THEN [ran |-> FALSE, removeCalls |-> 0, gone |-> FALSE, logged |-> FALSE,
          uncaught |-> FALSE, handle |-> inst, isLoaded |-> isLoaded]
    ELSE [ran |-> TRUE, removeCalls |-> 0, gone |-> FALSE, logged |-> FALSE,
          uncaught |-> FALSE, handle |-> "null", isLoaded |-> FALSE]

MapCleanup_LogAll(inst, o, gone) ==
    IF inst = "null"
    THEN [ran |-> FALSE, removeCalls |-> 0, gone |-> FALSE, logged |-> FALSE,
          uncaught |-> FALSE, handle |-> inst, isLoaded |-> isLoaded]
    ELSE [ran |-> TRUE, removeCalls |-> 1, gone |-> gone,
          logged |-> o \in {"aborted", "error"},
          uncaught |-> FALSE, handle |-> "null", isLoaded |-> FALSE]

\* The cleanup of the initialize effect, for a remove() ending as o:
\*   if (mapInstance.current) {
\*     try { mapInstance.current.remove() }
\*     catch (error) { if (error instanceof Error &&
\*                         !error.message.includes("aborted")) console.error(..) }
\*     finally { mapInstance.current = null; setIsLoaded(false) } }
\* The catch clause takes every thrown value, so nothing escapes.
MapCleanup(inst, o, gone) ==
    IF inst = "null"
    THEN [ran |-> FALSE, removeCalls |-> 0, gone |-> FALSE, logged |-> FALSE,
          uncaught |-> FALSE, handle |-> inst, isLoaded |-> isLoaded]
    ELSE [ran |-> TRUE, removeCalls |-> 1, gone |-> gone,
          logged |-> (o \in {"aborted", "error"} /\ o # "aborted"),
          uncaught |-> FALSE, handle |-> "null", isLoaded |-> FALSE]

\* ------------------------------------------------------------------------
\* MapRoute
\* ------------------------------------------------------------------------

RouteId == "a"

\* const sourceId = `route-${id}`; const layerId = `route-layer-${id}`
RouteSourceId(id) == CASE id = "a" -> "route-a" [] OTHER -> "route-b"
RouteLayerId(id) == CASE id = "a" -> "route-layer-a" [] OTHER -> "route-layer-b"

\* The prop combinations a MapRoute is given in this model.
RouteProps ==
    { [interactive |-> TRUE, onClick |-> TRUE, onMouseEnter |-> TRUE, onMouseLeave |-> TRUE],
      [interactive |-> FALSE, onClick |-> TRUE, onMouseEnter |-> TRUE, onMouseLeave |-> TRUE],
      [interactive |-> TRUE, onClick |-> FALSE, onMouseEnter |-> FALSE, onMouseLeave |-> FALSE] }

NoRoute ==
    [mounted |-> FALSE, armed |-> FALSE, run |-> 0, id |-> RouteId,
     props |-> [interactive |-> TRUE, onClick |-> FALSE,
                onMouseEnter |-> FALSE, onMouseLeave |-> FALSE]]

\* if (interactive) { if (onClick) map.on("click", layerId, onClick); ... }
RouteListeners(layerId, props, run) ==
    IF props.interactive
    THEN { Listener("click", layerId, "route", "onClick", run) : x \in {1} \cap (IF props.onClick THEN {1} ELSE {}) }
         \cup { Listener("mouseenter", layerId, "route", "onMouseEnter", run) : x \in {1} \cap (IF props.onMouseEnter THEN {1} ELSE {}) }
         \cup { Listener("mouseleave", layerId, "route", "onMouseLeave", run) : x \in {1} \cap (IF props.onMouseLeave THEN {1} ELSE {}) }
    ELSE {}

\* The body of the MapRoute effect on engine e with the context value c.
\* It returns early, registering no cleanup, when (!map || !isLoaded).
RouteEffect(e, c, id, props, run) ==
    IF c.map = "null" \/ ~c.isLoaded
    THEN [eng |-> e, armed |-> FALSE, threw |-> FALSE]
    ELSE IF StyleCallThrows(e)
    THEN [eng |-> e, armed |-> FALSE, threw |-> TRUE]
    ELSE [eng |-> [e EXCEPT
                     !.sources = IF RouteSourceId(id) \in @ THEN @
                                 ELSE @ \cup {RouteSourceId(id)},
                     !.layers = IF RouteLayerId(id) \in @ THEN @
                                ELSE @ \cup {RouteLayerId(id)},
                     !.listeners = @ \cup RouteListeners(RouteLayerId(id), props, run)],
          armed |-> TRUE, threw |-> FALSE]

\* The cleanup the MapRoute effect returned:
\*   if (map.getLayer(layerId)) map.removeLayer(layerId)
\*   if (map.getSource(sourceId)) map.removeSource(sourceId)
RouteCleanup(e, id) ==
    IF StyleCallThrows(e)
    THEN [eng |-> e, threw |-> TRUE]
    ELSE [eng |-> [e EXCEPT !.layers = @ \ {RouteLayerId(id)},
                            !.sources = @ \ {RouteSourceId(id)}],
          threw |-> FALSE]

\* ------------------------------------------------------------------------
\* MapClusterLayer
\* ------------------------------------------------------------------------

ClusterSourceId == "clusters"
ClusterLayerIds == {"clusters-layer", "cluster-count", "unclustered-point"}

\* The prop combinations a MapClusterLayer is given in this model.
ClusterProps ==
    { [onPointClick |-> TRUE, onClusterClick |-> TRUE],
      [onPointClick |-> FALSE, onClusterClick |-> FALSE] }

NoCluster ==
    [mounted |-> FALSE, armed |-> FALSE, run |-> 0,
     props |-> [onPointClick |-> FALSE, onClusterClick |-> FALSE]]

\* if (onClusterClick) map.on("click", clusterLayerId, ...);
\* if (onPointClick) map.on("click", pointLayerId, ...);
\* and the four cursor listeners, registered unconditionally.
ClusterListeners(props, run) ==
    { Listener("click", "clusters-layer", "cluster", "onClusterClick", run) : x \in {1} \cap (IF props.onClusterClick THEN {1} ELSE {}) }
    \cup { Listener("click", "unclustered-point", "cluster", "onPointClick", run) : x \in {1} \cap (IF props.onPointClick THEN {1} ELSE {}) }
    \cup { Listener(t, l, "cluster", "cursor", run) :
             t \in {"mouseenter", "mouseleave"}, l \in {"clusters-layer", "unclustered-point"} }

\* The body of the MapClusterLayer effect: addSource and three addLayer
\* calls without an existence check.  addSource throws when the id is
\* already in the style; addLayer reports an existing id on the engine's
\* error event and adds nothing.
ClusterEffect(e, c, props, run) ==
    IF c.map = "null" \/ ~c.isLoaded
    THEN [eng |-> e, armed |-> FALSE, threw |-> FALSE]
    ELSE IF StyleCallThrows(e) \/ ClusterSourceId \in e.sources
    THEN [eng |-> e, armed |-> FALSE, threw |-> TRUE]
    ELSE [eng |-> [e EXCEPT
                     !.sources = @ \cup {ClusterSourceId},
                     !.layers = @ \cup ClusterLayerIds,
                     !.listeners = @ \cup ClusterListeners(props, run)],
          armed |-> TRUE, threw |-> FALSE]

\* The cleanup the MapClusterLayer effect returned: each layer and then the
\* source is removed when getLayer / getSource finds it.
ClusterCleanup(e) ==
    IF StyleCallThrows(e)
    THEN [eng |-> e, threw |-> TRUE]
    ELSE [eng |-> [e EXCEPT !.layers = @ \ ClusterLayerIds,
                            !.sources = @ \ {ClusterSourceId}],
          threw |-> FALSE]

\* ------------------------------------------------------------------------
\* Map lifecycle actions
\* ------------------------------------------------------------------------

MapInit ==
    /\ mapMounted = FALSE
    /\ mounts = 0
    /\ mapInstance = "null"
    /\ isLoaded = FALSE
    /\ mapCtx = DefaultMapContext
    /\ engine = NoEngine
    /\ engineCreated = 0
    /\ engineRemoved = 0
    /\ removeOutcome = "none"
    /\ errLogged = FALSE
    /\ uncaught = FALSE
    /\ route = NoRoute
    /\ cluster = NoCluster
    /\ pending = <<>>
    /\ cleanupErrors = {}
    /\ invoked = {}
    /\ docTheme = "light"
    /\ styles = NoStyles
    /\ observing = FALSE

\* The render with isLoaded = true is committed and the theme effect of
\* that commit has not run yet.  React runs the pending passive effects
\* before it renders anything else, so no mount, update or unmount of the
\* tree happens in such a state.
ThemeEffectPending == mapMounted /\ isLoaded /\ ~observing

\* Map mounts: first render (context { map: null, isLoaded: false }), then
\* the initialize effect:
\*   if (!mapContainer.current || mapInstance.current) return
\*   mapInstance.current = new maplibregl.Map(...); on("load", ...)
MountMap(st) ==
    /\ ~mapMounted /\ pending = <<>>
    /\ mounts < MaxMounts
    /\ mapMounted' = TRUE
    /\ mounts' = mounts + 1
    /\ isLoaded' = FALSE
    /\ mapCtx' = [isNull |-> FALSE, map |-> mapInstance, isLoaded |-> FALSE]
    /\ IF mapInstance # "null"
       THEN UNCHANGED <<mapInstance, engine, engineCreated>>
       ELSE /\ mapInstance' = "engine"
            /\ engine' = NewEngine(StyleUrl(docTheme, st))
            /\ engineCreated' = engineCreated + 1
    /\ route' = NoRoute
    /\ cluster' = NoCluster
    /\ invoked' = {}
    /\ styles' = st
    /\ observing' = FALSE
    /\ UNCHANGED <<engineRemoved, removeOutcome, errLogged, uncaught,
                   pending, cleanupErrors, docTheme>>

\* Map re-renders (its parent re-rendered or passed other props): the
\* context value is rebuilt; the initialize effect has [] as dependencies
\* and does not run again.
MapRerender ==
    /\ mapMounted /\ pending = <<>>
    /\ mapCtx # [isNull |-> FALSE, map |-> mapInstance, isLoaded |-> isLoaded]
    /\ mapCtx' = [isNull |-> FALSE, map |-> mapInstance, isLoaded |-> isLoaded]
    /\ UNCHANGED <<mapMounted, mounts, mapInstance, isLoaded, engine,
                   engineCreated, engineRemoved, removeOutcome, errLogged,
                   uncaught, route, cluster, pending, cleanupErrors, invoked>>
    /\ UNCHANGED themeVars

\* The engine fires 'load': setIsLoaded(true), and Map re-renders.
EngineLoad ==
    /\ mapMounted /\ pending = <<>>
    /\ mapInstance = "engine" /\ ~engine.loaded
    /\ engine' = [engine EXCEPT !.loaded = TRUE]
    /\ isLoaded' = TRUE
    /\ mapCtx' = [isNull |-> FALSE, map |-> mapInstance, isLoaded |-> TRUE]
    /\ UNCHANGED <<mapMounted, mounts, mapInstance, engineCreated,
                   engineRemoved, removeOutcome, errLogged, uncaught, route,
                   cluster, pending, cleanupErrors, invoked>>
    /\ UNCHANGED themeVars

EngineLateLoad_SetsState ==
    /\ ~mapMounted /\ pending = <<>>
    /\ engineCreated > 0 /\ ~engine.loaded
    /\ engine' = [engine EXCEPT !.loaded = TRUE, !.loadedLate = TRUE]
    /\ isLoaded' = TRUE
    /\ UNCHANGED <<mapMounted, mounts, mapInstance, mapCtx, engineCreated,
                   engineRemoved, removeOutcome, errLogged, uncaught, route,
                   cluster, pending, cleanupErrors, invoked>>
    /\ UNCHANGED themeVars

\* The engine of an unmounted Map delivers 'load' after the cleanup ran:
\* the handler calls setIsLoaded(true) of a component that is no longer
\* mounted, which React drops.
EngineLateLoad ==
    /\ ~mapMounted /\ pending = <<>>
    /\ engineCreated > 0 /\ ~engine.loaded
    /\ engine' = [engine EXCEPT !.loaded = TRUE, !.loadedLate = TRUE]
    /\ UNCHANGED <<mapMounted, mounts, mapInstance, isLoaded, mapCtx,
                   engineCreated, engineRemoved, removeOutcome, errLogged,
                   uncaught, route, cluster, pending, cleanupErrors, invoked>>
    /\ UNCHANGED themeVars

\* The theme effect, after the commit of the render with isLoaded = true:
\*   if (!mapInstance.current || !isLoaded) return
\*   observer.observe(document.documentElement, { attributeFilter: ["class"] })
ThemeEffect ==
    /\ ThemeEffectPending
    /\ observing' = (mapInstance # "null" /\ isLoaded)
    /\ UNCHANGED <<mapMounted, mounts, mapInstance, isLoaded, mapCtx, engine,
                   engineCreated, engineRemoved, removeOutcome, errLogged,
                   uncaught, route, cluster, pending, cleanupErrors, invoked,
                   docTheme, styles>>

\* The class attribute of the root element changes between the light and
\* the dark theme.  A connected observer runs
\*   mapInstance.current?.setStyle(styleUrl)
\* with the style of the theme it reads now.
ThemeChange(t) ==
    /\ pending = <<>>
    /\ t # docTheme
    /\ docTheme' = t
    /\ engine' = IF observing /\ mapInstance # "null"
                 THEN SetStyle(engine, StyleUrl(t, styles))
                 ELSE engine
    /\ invoked' = {}
    /\ UNCHANGED <<mapMounted, mounts, mapInstance, isLoaded, mapCtx,
                   engineCreated, engineRemoved, removeOutcome, errLogged,
                   uncaught, route, cluster, pending, cleanupErrors,
                   styles, observing>>

\* The children whose effect cleanups a commit that deletes the Map still
\* has to run, in tree order.
ArmedChildren ==
    (IF route.mounted /\ route.armed THEN <<"MapRoute">> ELSE <<>>)
    \o (IF cluster.mounted /\ cluster.armed THEN <<"MapClusterLayer">> ELSE <<>>)

\* Map unmounts.  React runs the passive-effect cleanups of a deleted
\* subtree parent first: the Map cleanup runs here, the cleanups of the
\* children follow (ChildCleanup) within the same commit.
UnmountMap(o, gone) ==
    /\ mapMounted /\ pending = <<>> /\ ~ThemeEffectPending
    /\ o = "ok" => gone
    /\ LET r == MapCleanup(mapInstance, o, gone)
       IN /\ mapInstance' = r.handle
          /\ isLoaded' = r.isLoaded
          /\ engineRemoved' = engineRemoved + r.removeCalls
          /\ removeOutcome' = IF r.ran THEN o ELSE removeOutcome
          /\ errLogged' = r.logged
          /\ uncaught' = (uncaught \/ r.uncaught)
          /\ engine' = EngineRemove(engine, r.gone)
    /\ mapMounted' = FALSE
    /\ pending' = ArmedChildren
    /\ route' = IF route.mounted /\ route.armed THEN route ELSE NoRoute
    /\ cluster' = IF cluster.mounted /\ cluster.armed THEN cluster ELSE NoCluster
    /\ invoked' = {}
    /\ observing' = FALSE
    /\ styles' = NoStyles
    /\ UNCHANGED <<mounts, mapCtx, engineCreated, cleanupErrors, docTheme>>

\* The next child cleanup of the commit that deleted the Map.
ChildCleanup ==
    /\ pending # <<>>
    /\ LET c == Head(pending)
           r == IF c = "MapRoute" THEN RouteCleanup(engine, route.id)
                ELSE ClusterCleanup(engine)
       IN /\ engine' = r.eng
          /\ cleanupErrors' = IF r.threw THEN cleanupErrors \cup {c} ELSE cleanupErrors
          /\ route' = IF c = "MapRoute" THEN NoRoute ELSE route
          /\ cluster' = IF c = "MapClusterLayer" THEN NoCluster ELSE cluster
    /\ pending' = Tail(pending)
    /\ UNCHANGED <<mapMounted, mounts, mapInstance, isLoaded, mapCtx,
                   engineCreated, engineRemoved, removeOutcome, errLogged,
                   uncaught, invoked>>
    /\ UNCHANGED themeVars

\* ------------------------------------------------------------------------
\* MapRoute and MapClusterLayer lifecycle actions
\* ------------------------------------------------------------------------

\* Children of Map are rendered only by {isLoaded && children}.
ChildrenRendered ==
    mapMounted /\ pending = <<>> /\ mapCtx.isLoaded /\ ~ThemeEffectPending

\* A MapRoute mounts under the Map and its effect runs.
MountRoute(props) ==
    /\ ChildrenRendered
    /\ ~route.mounted /\ route.run < MaxRuns
    /\ LET r == RouteEffect(engine, useMap(mapCtx).value, route.id, props, route.run + 1)
       IN /\ engine' = r.eng
          /\ route' = [route EXCEPT !.mounted = TRUE, !.armed = r.armed,
                                    !.run = @ + 1, !.props = props]
    /\ invoked' = {}
    /\ UNCHANGED <<mapMounted, mounts, mapInstance, isLoaded, mapCtx,
                   engineCreated, engineRemoved, removeOutcome, errLogged,
                   uncaught, cluster, pending, cleanupErrors>>
    /\ UNCHANGED themeVars

\* A dependency of the MapRoute effect changes: the cleanup of the previous
\* run, then the effect with the new props.
RoutePropChange(props) ==
    /\ ChildrenRendered
    /\ route.mounted /\ route.run < MaxRuns
    /\ LET c == IF route.armed THEN RouteCleanup(engine, route.id)
                ELSE [eng |-> engine, threw |-> FALSE]
           r == RouteEffect(c.eng, useMap(mapCtx).value, route.id, props, route.run + 1)
       IN /\ engine' = r.eng
          /\ cleanupErrors' = IF c.threw THEN cleanupErrors \cup {"MapRoute"}
                              ELSE cleanupErrors
          /\ route' = [route EXCEPT !.armed = r.armed, !.run = @ + 1,
                                    !.props = props]
    /\ invoked' = {}
    /\ UNCHANGED <<mapMounted, mounts, mapInstance, isLoaded, mapCtx,
                   engineCreated, engineRemoved, removeOutcome, errLogged,
                   uncaught, cluster, pending>>
    /\ UNCHANGED themeVars

\* The MapRoute alone unmounts while the Map stays.
UnmountRoute ==
    /\ ChildrenRendered
    /\ route.mounted
    /\ LET c == IF route.armed THEN RouteCleanup(engine, route.id)
                ELSE [eng |-> engine, threw |-> FALSE]
       IN /\ engine' = c.eng
          /\ cleanupErrors' = IF c.threw THEN cleanupErrors \cup {"MapRoute"}
                              ELSE cleanupErrors
    /\ route' = [route EXCEPT !.mounted = FALSE, !.armed = FALSE]
    /\ invoked' = {}
    /\ UNCHANGED <<mapMounted, mounts, mapInstance, isLoaded, mapCtx,
                   engineCreated, engineRemoved, removeOutcome, errLogged,
                   uncaught, cluster, pending>>
    /\ UNCHANGED themeVars

\* A MapClusterLayer mounts under the Map and its effect runs.
MountCluster(props) ==
    /\ ChildrenRendered
    /\ ~cluster.mounted /\ cluster.run < MaxRuns
    /\ LET r == ClusterEffect(engine, useMap(mapCtx).value, props, cluster.run + 1)
       IN /\ engine' = r.eng
          /\ cluster' = [cluster EXCEPT !.mounted = TRUE, !.armed = r.armed,
                                        !.run = @ + 1, !.props = props]
    /\ invoked' = {}
    /\ UNCHANGED <<mapMounted, mounts, mapInstance, isLoaded, mapCtx,
                   engineCreated, engineRemoved, removeOutcome, errLogged,
                   uncaught, route, pending, cleanupErrors>>
    /\ UNCHANGED themeVars

\* A dependency of the MapClusterLayer effect changes.
ClusterPropChange(props) ==
    /\ ChildrenRendered
    /\ cluster.mounted /\ cluster.run < MaxRuns
    /\ LET c == IF cluster.armed THEN ClusterCleanup(engine)
                ELSE [eng |-> engine, threw |-> FALSE]
           r == ClusterEffect(c.eng, useMap(mapCtx).value, props, cluster.run + 1)
       IN /\ engine' = r.eng
          /\ cleanupErrors' = IF c.threw THEN cleanupErrors \cup {"MapClusterLayer"}
                              ELSE cleanupErrors
          /\ cluster' = [cluster EXCEPT !.armed = r.armed, !.run = @ + 1,
                                        !.props = props]
    /\ invoked' = {}
    /\ UNCHANGED <<mapMounted, mounts, mapInstance, isLoaded, mapCtx,
                   engineCreated, engineRemoved, removeOutcome, errLogged,
                   uncaught, route, pending>>
    /\ UNCHANGED themeVars

\* The MapClusterLayer alone unmounts while the Map stays.
UnmountCluster ==
    /\ ChildrenRendered
    /\ cluster.mounted
    /\ LET c == IF cluster.armed THEN ClusterCleanup(engine)
                ELSE [eng |-> engine, threw |-> FALSE]
       IN /\ engine' = c.eng
          /\ cleanupErrors' = IF c.threw THEN cleanupErrors \cup {"MapClusterLayer"}
                              ELSE cleanupErrors
    /\ cluster' = [cluster EXCEPT !.mounted = FALSE, !.armed = FALSE]
    /\ invoked' = {}
    /\ UNCHANGED <<mapMounted, mounts, mapInstance, isLoaded, mapCtx,
                   engineCreated, engineRemoved, removeOutcome, errLogged,
                   uncaught, route, pending>>
    /\ UNCHANGED themeVars

\* The engine delivers a pointer event on a feature of `layer`: every
\* delegated listener registered for (type, layer) is called.
EngineLayerEvent(type, layer) ==
    /\ mapMounted /\ pending = <<>>
    /\ mapInstance = "engine" /\ engine.loaded
    /\ layer \in engine.layers
    /\ invoked' = {l \in engine.listeners : l.type = type /\ l.layer = layer}
    /\ invoked' # invoked
    /\ UNCHANGED <<mapMounted, mounts, mapInstance, isLoaded, mapCtx, engine,
                   engineCreated, engineRemoved, removeOutcome, errLogged,
                   uncaught, route, cluster, pending, cleanupErrors>>
    /\ UNCHANGED themeVars

\* The Map with both kinds of layer children and the pointer events of the
\* engine; the theme of the document stays as it is.
MapNext ==
    \/ MountMap(NoStyles)
    \/ MapRerender
    \/ EngineLoad
    \/ EngineLateLoad
    \/ ThemeEffect
    \/ \E o \in RemoveOutcomes, gone \in BOOLEAN : UnmountMap(o, gone)
    \/ ChildCleanup
    \/ \E props \in RouteProps : MountRoute(props)
    \/ \E props \in RouteProps : RoutePropChange(props)
    \/ UnmountRoute
    \/ \E props \in ClusterProps : MountCluster(props)
    \/ \E props \in ClusterProps : ClusterPropChange(props)
    \/ UnmountCluster
    \/ \E type \in {"click", "mouseenter", "mouseleave"},
          layer \in {RouteLayerId(RouteId)} \cup ClusterLayerIds :
            EngineLayerEvent(type, layer)

\* The Map with a MapRoute while the class of the root element changes
\* between the themes.
ThemeNext ==
    \/ \E st \in StylesProps : MountMap(st)
    \/ MapRerender
    \/ EngineLoad
    \/ EngineLateLoad
    \/ ThemeEffect
    \/ \E t \in Themes : ThemeChange(t)
    \/ \E o \in RemoveOutcomes, gone \in BOOLEAN : UnmountMap(o, gone)
    \/ ChildCleanup
    \/ \E props \in RouteProps : MountRoute(props)
    \/ \E props \in RouteProps : RoutePropChange(props)
    \/ UnmountRoute

\* ------------------------------------------------------------------------
\* Toaster
\* ------------------------------------------------------------------------

ToasterPropNames == {"theme", "icons", "className", "style"}
Statuses == {"success", "info", "warning", "error", "loading"}
AmbientThemes == {"undef", "light", "dark", "system"}
ThemeProps == {"light", "dark", "system"}

\* icons={{ success: <CircleCheckIcon/>, info: <InfoIcon/>, ... }}
DefaultIcons ==
    [s \in Statuses |->
        CASE s = "success" -> "CircleCheckIcon"
          [] s = "info" -> "InfoIcon"
          [] s = "warning" -> "TriangleAlertIcon"
          [] s = "error" -> "OctagonXIcon"
          [] OTHER -> "Loader2Icon"]

\* className={cn("toaster group [&>li]:flex [&>li]:items-start [&>li]:gap-3")}
DefaultToasterClasses ==
    cn({{"toaster", "group", "[&>li]:flex", "[&>li]:items-start", "[&>li]:gap-3"}})

\* style={{ "--normal-bg": "var(--popover)", ... }}
DefaultToasterStyle ==
    [v \in {"--normal-bg", "--normal-text", "--normal-border", "--border-radius"} |->
        CASE v = "--normal-bg" -> "var(--popover)"
          [] v = "--normal-text" -> "var(--popover-foreground)"
          [] v = "--normal-border" -> "var(--border)"
          [] OTHER -> "var(--radius)"]

\* What a caller passes for icons, className and style in this model.
CallerIcons == [s \in {"success"} |-> "MyCheckIcon"]
CallerClasses == {"my-toaster"}
CallerStyle == [v \in {"--normal-bg"} |-> "red"]

\* The props of a Toaster: `given` names the props that were passed.
ToasterProps ==
    [given : SUBSET ToasterPropNames, theme : ThemeProps]

\* The value of prop k in the props object p.
ToasterPropValue(p, k) ==
    CASE k = "theme" -> p.theme
      [] k = "icons" -> CallerIcons
      [] k = "className" -> CallerClasses
      [] OTHER -> CallerStyle

Toaster_DefaultsWin(ambient, p) ==
    LET theme == IF ambient = "undef" THEN "system" ELSE ambient
    IN [theme |-> theme,
        className |-> DefaultToasterClasses,
        icons |-> DefaultIcons,
        style |-> DefaultToasterStyle]

\* const { theme = "system" } = useTheme()
\* <Sonner theme={theme} className={...} icons={...} style={...} {...props} />
Toaster(ambient, p) ==
    LET theme == IF ambient = "undef" THEN "system" ELSE ambient
    IN [theme |-> IF "theme" \in p.given THEN ToasterPropValue(p, "theme") ELSE theme,
        className |-> IF "className" \in p.given THEN ToasterPropValue(p, "className")
                      ELSE DefaultToasterClasses,
        icons |-> IF "icons" \in p.given THEN ToasterPropValue(p, "icons")
                  ELSE DefaultIcons,
        style |-> IF "style" \in p.given THEN ToasterPropValue(p, "style")
                  ELSE DefaultToasterStyle]

ToasterInit ==
    /\ tsAmbient = "undef"
    /\ tsProps = [given |-> {}, theme |-> "system"]
    /\ tsOut = Toaster(tsAmbient, tsProps)

\* The theme provider publishes another theme and Toaster re-renders.
ToasterSetAmbient(t) ==
    /\ t # tsAmbient
    /\ tsAmbient' = t
    /\ tsOut' = Toaster(tsAmbient', tsProps)
    /\ UNCHANGED tsProps

\* The parent starts passing prop k (for theme: with value t) and Toaster
\* re-renders.
ToasterPassProp(k, t) ==
    /\ k \notin tsProps.given \/ (k = "theme" /\ t # tsProps.theme)
    /\ tsProps' = [given |-> tsProps.given \cup {k},
                   theme |-> IF k = "theme" THEN t ELSE tsProps.theme]
    /\ tsOut' = Toaster(tsAmbient, tsProps')
    /\ UNCHANGED tsAmbient

\* The parent stops passing prop k and Toaster re-renders.
ToasterDropProp(k) ==
    /\ k \in tsProps.given
    /\ tsProps' = [tsProps EXCEPT !.given = @ \ {k}]
    /\ tsOut' = Toaster(tsAmbient, tsProps')
    /\ UNCHANGED tsAmbient

ToasterNext ==
    \/ \E t \in AmbientThemes : ToasterSetAmbient(t)
    \/ \E k \in ToasterPropNames, t \in ThemeProps : ToasterPassProp(k, t)
    \/ \E k \in ToasterPropNames : ToasterDropProp(k)

\* ------------------------------------------------------------------------
\* MapMarker with a MarkerPopup child, under a loaded Map
\* ------------------------------------------------------------------------

MaxMarkers == 3
MaxClicks == 3

\* The [longitude, latitude] pairs of this model.
Coords == {<<0, 0>>, <<1, 0>>, <<1, 1>>}

\* new maplibregl.Marker({ element: el }).setLngLat(pos).addTo(map), with
\* markerRef.current and markerElementRef.current set to the new objects,
\* and forceUpdate() at the end of the effect.  Markers and their elements
\* are numbered in the order of creation; 0 is null.
MapMarkerEffect_NoForceUpdate(ms, made, pos) ==
    [markers |-> ms \cup {[id |-> made + 1, pos |-> pos]},
     markerRef |-> made + 1, elRef |-> made + 1, forced |-> FALSE]

MapMarkerEffect(ms, made, pos) ==
    [markers |-> ms \cup {[id |-> made + 1, pos |-> pos]},
     markerRef |-> made + 1, elRef |-> made + 1, forced |-> TRUE]

MapMarkerCleanup_NoRemove(ms, ref) ==
    [markers |-> ms, markerRef |-> 0, elRef |-> 0]

\* if (markerRef.current) { markerRef.current.remove(); markerRef.current = null }
\* markerElementRef.current = null
MapMarkerCleanup(ms, ref) ==
    [markers |-> IF ref # 0 THEN {m \in ms : m.id # ref} ELSE ms,
     markerRef |-> 0, elRef |-> 0]

\* marker.setLngLat(pos) on the marker numbered ref.
SetLngLat(ms, ref, pos) ==
    {IF m.id = ref THEN [m EXCEPT !.pos = pos] ELSE m : m \in ms}

\* marker.getLngLat() of an attached marker.
GetLngLat(ms, ref) == (CHOOSE m \in ms : m.id = ref).pos

\* if (!isLoaded || !markerElementRef.current) return null
\* else the Provider value { marker: markerRef.current,
\*                           markerElement: markerElementRef.current }
MapMarkerRender(markerRef, elRef) ==
    IF elRef = 0
    THEN [rendered |-> FALSE, marker |-> 0, markerElement |-> 0]
    ELSE [rendered |-> TRUE, marker |-> markerRef, markerElement |-> elRef]

NoMarker ==
    [mounted |-> FALSE, pos |-> <<0, 0>>, draggable |-> FALSE,
     markerRef |-> 0, elRef |-> 0, ctx |-> MapMarkerRender(0, 0),
     dirty |-> FALSE, dragged |-> FALSE, runs |-> 0]

NoMarkerPopup ==
    [mounted |-> FALSE, closeButton |-> FALSE, boundEl |-> 0, boundMarker |-> 0,
     closureOpen |-> FALSE, isOpen |-> FALSE, onMap |-> FALSE, at |-> <<0, 0>>,
     clicks |-> 0]

\* The MarkerPopup effect run in a render whose isOpen state is `open`:
\*   if (!map || !marker || !markerElement) return
\*   popupRef.current = new maplibregl.Popup(...)
\*   markerElement.addEventListener("click", handleClick)
\* handleClick closes over the isOpen of that render.
MarkerPopupEffect(p, ctx, open) ==
    IF ctx.marker = 0 \/ ctx.markerElement = 0
    THEN [p EXCEPT !.boundEl = 0, !.boundMarker = 0]
    ELSE [p EXCEPT !.boundEl = ctx.markerElement, !.boundMarker = ctx.marker,
                   !.closureOpen = open, !.onMap = FALSE]

\* The cleanup of the MarkerPopup effect: removeEventListener, and
\* popupRef.current.remove(), which fires 'close' (setIsOpen(false)).
MarkerPopupCleanup(p) ==
    IF p.boundEl = 0 THEN p
    ELSE [p EXCEPT !.boundEl = 0, !.boundMarker = 0, !.onMap = FALSE,
                   !.isOpen = FALSE]

\* handleClick:
\*   if (!popupRef.current || !marker) return
\*   if (isOpen) { popupRef.current.remove(); setIsOpen(false) }
\*   else { popupRef.current.setLngLat(marker.getLngLat()).addTo(map)
\*          setIsOpen(true) }
\* addTo on a popup that is on the map removes it first ('close' fires,
\* setIsOpen(false)) and adds it again; setIsOpen(true) comes last.
handleClick(p, ms) ==
    IF p.boundEl = 0 \/ p.boundMarker = 0 THEN p
    ELSE IF p.closureOpen
    THEN [p EXCEPT !.onMap = FALSE, !.isOpen = FALSE]
    ELSE [p EXCEPT !.onMap = TRUE, !.at = GetLngLat(ms, p.boundMarker),
                   !.isOpen = TRUE]

Max2(a, b) == IF a >= b THEN a ELSE b

MarkerInit ==
    /\ mk = NoMarker
    /\ mp = NoMarkerPopup
    /\ mapMarkers = {}
    /\ markersMade = 0
    /\ mkPeak = 0

\* A MapMarker mounts under the loaded Map: the first render returns null
\* (markerElementRef.current is null), then the effect and the position
\* effect run.
MountMarker(pos, drag) ==
    /\ ~mk.mounted /\ markersMade < MaxMarkers
    /\ LET r == MapMarkerEffect(mapMarkers, markersMade, pos)
       IN /\ mapMarkers' = SetLngLat(r.markers, r.markerRef, pos)
          /\ mk' = [NoMarker EXCEPT !.mounted = TRUE, !.pos = pos,
                                    !.draggable = drag,
                                    !.markerRef = r.markerRef, !.elRef = r.elRef,
                                    !.ctx = MapMarkerRender(mk.markerRef, mk.elRef),
                                    !.dirty = r.forced, !.runs = 1]
          /\ mkPeak' = Max2(mkPeak, Cardinality(r.markers))
    /\ markersMade' = markersMade + 1
    /\ UNCHANGED mp

\* The render that forceUpdate() asked for: the Provider value is rebuilt
\* from the refs; a MarkerPopup child mounts, or re-runs its effect when
\* marker or markerElement differ from those of its last run.
MarkerRerender ==
    /\ mk.mounted /\ mk.dirty
    /\ LET ctx == MapMarkerRender(mk.markerRef, mk.elRef)
       IN /\ mk' = [mk EXCEPT !.ctx = ctx, !.dirty = FALSE]
          /\ mp' = IF ~ctx.rendered
                   THEN NoMarkerPopup
                   ELSE IF ~mp.mounted
                   THEN MarkerPopupEffect([NoMarkerPopup EXCEPT !.mounted = TRUE],
                                          ctx, FALSE)
                   ELSE IF ctx.marker # mp.boundMarker \/ ctx.markerElement # mp.boundEl
                   THEN [MarkerPopupEffect(MarkerPopupCleanup(mp), ctx, mp.isOpen)
                            EXCEPT !.clicks = 0]
                   ELSE mp
    /\ UNCHANGED <<mapMarkers, markersMade, mkPeak>>

\* A dependency of the MapMarker effect changes (longitude, latitude,
\* draggable, or a callback prop when cb): render with the refs as they
\* are, cleanup of the previous run, the effect, the position effect.
MarkerDepChange(pos, drag, cb) ==
    /\ mk.mounted /\ ~mk.dirty /\ markersMade < MaxMarkers
    /\ pos # mk.pos \/ drag # mk.draggable \/ cb
    /\ LET c == MapMarkerCleanup(mapMarkers, mk.markerRef)
           r == MapMarkerEffect(c.markers, markersMade, pos)
       IN /\ mapMarkers' = IF pos # mk.pos
                           THEN SetLngLat(r.markers, r.markerRef, pos)
                           ELSE r.markers
          /\ mk' = [mk EXCEPT !.pos = pos, !.draggable = drag,
                              !.markerRef = r.markerRef, !.elRef = r.elRef,
                              !.ctx = MapMarkerRender(mk.markerRef, mk.elRef),
                              !.dirty = r.forced, !.dragged = FALSE,
                              !.runs = @ + 1]
          /\ mkPeak' = Max2(mkPeak, Max2(Cardinality(c.markers), Cardinality(r.markers)))
    /\ markersMade' = markersMade + 1
    /\ UNCHANGED mp

\* The MapMarker unmounts: its cleanup, then the cleanup of the MarkerPopup.
UnmountMarker ==
    /\ mk.mounted
    /\ LET c == MapMarkerCleanup(mapMarkers, mk.markerRef)
       IN /\ mapMarkers' = c.markers
          /\ mk' = [NoMarker EXCEPT !.markerRef = c.markerRef, !.elRef = c.elRef]
          /\ mkPeak' = Max2(mkPeak, Cardinality(c.markers))
    /\ mp' = [MarkerPopupCleanup(mp) EXCEPT !.mounted = FALSE, !.closeButton = FALSE,
                                            !.closureOpen = FALSE, !.at = <<0, 0>>,
                                            !.clicks = 0]
    /\ UNCHANGED markersMade

\* The user drags a draggable marker to another place.
MarkerDrag(pos) ==
    /\ mk.mounted /\ mk.draggable /\ mk.markerRef # 0
    /\ pos # GetLngLat(mapMarkers, mk.markerRef)
    /\ mapMarkers' = SetLngLat(mapMarkers, mk.markerRef, pos)
    /\ mk' = [mk EXCEPT !.dragged = TRUE]
    /\ UNCHANGED <<mp, markersMade, mkPeak>>

\* A click on the marker element that carries the handler of MarkerPopup.
MarkerClick ==
    /\ mk.mounted /\ mp.mounted
    /\ mp.boundEl # 0 /\ mp.boundEl = mk.elRef
    /\ mp.clicks < MaxClicks
    /\ mp' = [handleClick(mp, mapMarkers) EXCEPT !.clicks = @ + 1]
    /\ UNCHANGED <<mk, mapMarkers, markersMade, mkPeak>>

\* The popup is closed by its close button or by a click on the map:
\* popup.remove(), 'close' fires, setIsOpen(false).
MarkerPopupClose ==
    /\ mp.mounted /\ mp.onMap
    /\ mp' = [mp EXCEPT !.onMap = FALSE, !.isOpen = FALSE, !.clicks = 0]
    /\ UNCHANGED <<mk, mapMarkers, markersMade, mkPeak>>

\* closeButton (a dependency of the MarkerPopup effect) changes: cleanup
\* and effect, with the isOpen of the render that saw the change.
MarkerPopupDepChange ==
    /\ mk.mounted /\ ~mk.dirty /\ mp.mounted
    /\ mp' = [MarkerPopupEffect(MarkerPopupCleanup(mp), mk.ctx, mp.isOpen)
                 EXCEPT !.closeButton = ~mp.closeButton, !.clicks = 0]
    /\ UNCHANGED <<mk, mapMarkers, markersMade, mkPeak>>

MarkerNext ==
    \/ \E pos \in Coords, drag \in BOOLEAN : MountMarker(pos, drag)
    \/ MarkerRerender
    \/ \E pos \in Coords, drag \in BOOLEAN, cb \in BOOLEAN : MarkerDepChange(pos, drag, cb)
    \/ UnmountMarker
    \/ \E pos \in Coords : MarkerDrag(pos)
    \/ MarkerClick
    \/ MarkerPopupClose
    \/ MarkerPopupDepChange

\* ------------------------------------------------------------------------
\* MapPopup under a loaded Map
\* ------------------------------------------------------------------------

MaxPopups == 3

\* The props of a MapPopup that are dependencies of its effect.
MapPopupProps == [pos : Coords, closeButton : BOOLEAN]

NoMapPopup ==
    [mounted |-> FALSE, props |-> [pos |-> <<0, 0>>, closeButton |-> TRUE],
     popupRef |-> 0, container |-> 0, shownIn |-> 0, shownOnce |-> FALSE]

\* The MapPopup effect: popupContainerRef.current = popupEl and
\*   popupRef.current = new maplibregl.Popup(..).setLngLat([longitude, latitude])
\*                        .setDOMContent(popupEl).addTo(map)
\* Popups and their containers are numbered in the order of creation.
\* Nothing in the effect asks for another render.
MapPopupEffect(ps, made, props) ==
    [popups |-> ps \cup {[id |-> made + 1, pos |-> props.pos]},
     popupRef |-> made + 1, container |-> made + 1]

\* if (popupRef.current) { popupRef.current.remove(); popupRef.current = null }
\* popupContainerRef.current = null
MapPopupCleanup(ps, ref) ==
    [popups |-> IF ref # 0 THEN {q \in ps : q.id # ref} ELSE ps,
     popupRef |-> 0, container |-> 0]

\* if (!popupContainerRef.current) return null
\* return createPortal(<div>{children}</div>, popupContainerRef.current)
\* The result is the container the children are rendered into, 0 for none.
MapPopupRender(container) == container

PopupInit ==
    /\ pp = NoMapPopup
    /\ mapPopups = {}
    /\ popupsMade = 0
    /\ ppPeak = 0

\* A MapPopup mounts: the first render, then the effect.
MountMapPopup(props) ==
    /\ ~pp.mounted /\ popupsMade < MaxPopups
    /\ LET shown == MapPopupRender(pp.container)
           r == MapPopupEffect(mapPopups, popupsMade, props)
       IN /\ mapPopups' = r.popups
          /\ pp' = [mounted |-> TRUE, props |-> props, popupRef |-> r.popupRef,
                    container |-> r.container, shownIn |-> shown,
                    shownOnce |-> FALSE]
          /\ ppPeak' = Max2(ppPeak, Cardinality(r.popups))
    /\ popupsMade' = popupsMade + 1

\* A dependency changes: the render, the cleanup of the previous run, the
\* effect.
MapPopupDepChange(props) ==
    /\ pp.mounted /\ popupsMade < MaxPopups
    /\ props # pp.props
    /\ LET shown == MapPopupRender(pp.container)
           c == MapPopupCleanup(mapPopups, pp.popupRef)
           r == MapPopupEffect(c.popups, popupsMade, props)
       IN /\ mapPopups' = r.popups
          /\ pp' = [pp EXCEPT !.props = props, !.popupRef = r.popupRef,
                              !.container = r.container, !.shownIn = shown]
          /\ ppPeak' = Max2(ppPeak, Max2(Cardinality(c.popups), Cardinality(r.popups)))
    /\ popupsMade' = popupsMade + 1

\* The parent of the MapPopup renders again for a reason of its own, with
\* the same props for the MapPopup.
MapPopupParentRerender ==
    /\ pp.mounted
    /\ pp.shownIn # MapPopupRender(pp.container)
    /\ pp' = [pp EXCEPT !.shownIn = MapPopupRender(pp.container),
                        !.shownOnce = TRUE]
    /\ UNCHANGED <<mapPopups, popupsMade, ppPeak>>

\* The user closes the popup (close button, or a click on the map):
\* the engine removes it from the map; the refs of the component stay.
MapPopupClose ==
    /\ pp.mounted
    /\ \E q \in mapPopups : q.id = pp.popupRef
    /\ mapPopups' = {q \in mapPopups : q.id # pp.popupRef}
    /\ UNCHANGED <<pp, popupsMade, ppPeak>>

\* The MapPopup unmounts: the cleanup of its effect.
UnmountMapPopup ==
    /\ pp.mounted
    /\ LET c == MapPopupCleanup(mapPopups, pp.popupRef)
       IN /\ mapPopups' = c.popups
          /\ pp' = [NoMapPopup EXCEPT !.popupRef = c.popupRef,
                                      !.container = c.container]
          /\ ppPeak' = Max2(ppPeak, Cardinality(c.popups))
    /\ UNCHANGED popupsMade

PopupNext ==
    \/ \E props \in MapPopupProps : MountMapPopup(props)
    \/ \E props \in MapPopupProps : MapPopupDepChange(props)
    \/ MapPopupParentRerender
    \/ MapPopupClose
    \/ UnmountMapPopup

\* ------------------------------------------------------------------------
\* Several MapClusterLayers under one loaded Map
\* ------------------------------------------------------------------------

NumClusterLayers == 2
MaxClusterRuns == 4

ClusterLayers == 1..NumClusterLayers

\* What useMap() returns under the loaded Map of this specification.
LoadedMapContext == [isNull |-> FALSE, map |-> "engine", isLoaded |-> TRUE]

\* The engine after 'load'.
LoadedEngine == [NewEngine(DEFAULT_LIGHT_STYLE) EXCEPT !.loaded = TRUE]

ClustersInit ==
    /\ clEngine = LoadedEngine
    /\ cls = [i \in ClusterLayers |-> NoCluster]
    /\ clRuns = 0
    /\ clDupAdd = FALSE
    /\ clErrors = {}

\* MapClusterLayer i mounts and its effect runs.  An effect that throws
\* returns no cleanup; the component is taken out of the tree by the
\* nearest error boundary.
MountClusterLayer(i, props) ==
    /\ ~cls[i].mounted /\ clRuns < MaxClusterRuns
    /\ LET r == ClusterEffect(clEngine, useMap(LoadedMapContext).value, props, clRuns + 1)
       IN /\ clEngine' = r.eng
          /\ cls' = [cls EXCEPT ![i] =
                       IF r.threw THEN NoCluster
                       ELSE [mounted |-> TRUE, armed |-> r.armed,
                             run |-> clRuns + 1, props |-> props]]
          /\ clDupAdd' = (r.threw /\ ~StyleCallThrows(clEngine))
          /\ clErrors' = IF r.threw THEN clErrors \cup {i} ELSE clErrors
    /\ clRuns' = clRuns + 1

\* A dependency of MapClusterLayer i changes: the cleanup of its previous
\* run, then the effect.
ClusterLayerDepChange(i, props) ==
    /\ cls[i].mounted /\ clRuns < MaxClusterRuns
    /\ props # cls[i].props
    /\ LET c == IF cls[i].armed THEN ClusterCleanup(clEngine)
                ELSE [eng |-> clEngine, threw |-> FALSE]
           r == ClusterEffect(c.eng, useMap(LoadedMapContext).value, props, clRuns + 1)
       IN /\ clEngine' = r.eng
          /\ cls' = [cls EXCEPT ![i] =
                       IF r.threw THEN NoCluster
                       ELSE [mounted |-> TRUE, armed |-> r.armed,
                             run |-> clRuns + 1, props |-> props]]
          /\ clDupAdd' = (r.threw /\ ~StyleCallThrows(c.eng))
          /\ clErrors' = IF r.threw \/ c.threw THEN clErrors \cup {i} ELSE clErrors
    /\ clRuns' = clRuns + 1

\* MapClusterLayer i unmounts.
UnmountClusterLayer(i) ==
    /\ cls[i].mounted
    /\ LET c == IF cls[i].armed THEN ClusterCleanup(clEngine)
                ELSE [eng |-> clEngine, threw |-> FALSE]
       IN /\ clEngine' = c.eng
          /\ clErrors' = IF c.threw THEN clErrors \cup {i} ELSE clErrors
    /\ cls' = [cls EXCEPT ![i] = NoCluster]
    /\ clDupAdd' = FALSE
    /\ UNCHANGED clRuns

ClustersNext ==
    \/ \E i \in ClusterLayers, props \in ClusterProps : MountClusterLayer(i, props)
    \/ \E i \in ClusterLayers, props \in ClusterProps : ClusterLayerDepChange(i, props)
    \/ \E i \in ClusterLayers : UnmountClusterLayer(i)

\* ------------------------------------------------------------------------
\* Idle values of each family, and the specifications
\* ------------------------------------------------------------------------

StepperIdle ==
    /\ valueProp = NoValue
    /\ activeStep = 0
    /\ syncPending = FALSE
    /\ itemDisabled = [v \in Steps |-> "undef"]
    /\ stepAttrs = StepperRender(0, itemDisabled)
    /\ onChangeArg = NoValue
    /\ stepperLast = "mount"
    /\ inStepper = TRUE
    /\ lastClicked = NoValue
    /\ onChangeCalls = 0

ButtonGroupIdle == ButtonGroupInit

ListIdle == ListInit

CtxIdle == CtxInit

MapIdle == MapInit

ClustersIdle == ClustersInit

PopupIdle == PopupInit

MarkerIdle == MarkerInit

ToasterIdle == ToasterInit

\* The Stepper with its StepperItems.
InitStepper ==
    /\ StepperInit
    /\ ButtonGroupIdle
    /\ ListIdle
    /\ CtxIdle
    /\ MapIdle
    /\ ToasterIdle
    /\ MarkerIdle
    /\ PopupIdle
    /\ ClustersIdle

NextStepper ==
    /\ StepperNext
    /\ UNCHANGED <<bgVars, liVars, ctxVars, mapVars, tsVars, mkVars, ppVars, clVars>>

SpecStepper == InitStepper /\ [][NextStepper]_vars

\* The ButtonGroup.
InitButtonGroup ==
    /\ ButtonGroupInit
    /\ StepperIdle
    /\ ListIdle
    /\ CtxIdle
    /\ MapIdle
    /\ ToasterIdle
    /\ MarkerIdle
    /\ PopupIdle
    /\ ClustersIdle

NextButtonGroup ==
    /\ ButtonGroupNext
    /\ UNCHANGED <<stepperVars, liVars, ctxVars, mapVars, tsVars, mkVars, ppVars, clVars>>

SpecButtonGroup == InitButtonGroup /\ [][NextButtonGroup]_vars

\* The ListItems of a List.
InitList ==
    /\ ListInit
    /\ StepperIdle
    /\ ButtonGroupIdle
    /\ CtxIdle
    /\ MapIdle
    /\ ToasterIdle
    /\ MarkerIdle
    /\ PopupIdle
    /\ ClustersIdle

NextList ==
    /\ ListNext
    /\ UNCHANGED <<stepperVars, bgVars, ctxVars, mapVars, tsVars, mkVars, ppVars, clVars>>

SpecList == InitList /\ [][NextList]_vars

\* The consumers of MapContext and MarkerContext.
InitCtx ==
    /\ CtxInit
    /\ StepperIdle
    /\ ButtonGroupIdle
    /\ ListIdle
    /\ MapIdle
    /\ ToasterIdle
    /\ MarkerIdle
    /\ PopupIdle
    /\ ClustersIdle

NextCtx ==
    /\ CtxNext
    /\ UNCHANGED <<stepperVars, bgVars, liVars, mapVars, tsVars, mkVars, ppVars, clVars>>

SpecCtx == InitCtx /\ [][NextCtx]_vars

\* The Map widget with its children: the main specification.
Init ==
    /\ MapInit
    /\ StepperIdle
    /\ ButtonGroupIdle
    /\ ListIdle
    /\ CtxIdle
    /\ ToasterIdle
    /\ MarkerIdle
    /\ PopupIdle
    /\ ClustersIdle

Next ==
    /\ MapNext
    /\ UNCHANGED <<stepperVars, bgVars, liVars, ctxVars, tsVars, mkVars, ppVars, clVars>>

Spec == Init /\ [][Next]_vars

\* The Toaster.
InitToaster ==
    /\ ToasterInit
    /\ StepperIdle
    /\ ButtonGroupIdle
    /\ ListIdle
    /\ CtxIdle
    /\ MapIdle
    /\ MarkerIdle
    /\ PopupIdle
    /\ ClustersIdle

NextToaster ==
    /\ ToasterNext
    /\ UNCHANGED <<stepperVars, bgVars, liVars, ctxVars, mapVars, mkVars, ppVars, clVars>>

SpecToaster == InitToaster /\ [][NextToaster]_vars

\* The Map widget with a MapRoute while the theme of the document changes.
InitTheme ==
    /\ MapInit
    /\ StepperIdle
    /\ ButtonGroupIdle
    /\ ListIdle
    /\ CtxIdle
    /\ ToasterIdle
    /\ MarkerIdle
    /\ PopupIdle
    /\ ClustersIdle

NextTheme ==
    /\ ThemeNext
    /\ UNCHANGED <<stepperVars, bgVars, liVars, ctxVars, tsVars, mkVars, ppVars, clVars>>

SpecTheme == InitTheme /\ [][NextTheme]_vars

\* A MapMarker with a MarkerPopup, and a MapPopup, under a loaded Map.
InitMarker ==
    /\ MarkerInit
    /\ StepperIdle
    /\ ButtonGroupIdle
    /\ ListIdle
    /\ CtxIdle
    /\ MapIdle
    /\ ToasterIdle
    /\ PopupIdle
    /\ ClustersIdle

NextMarker ==
    /\ MarkerNext
    /\ UNCHANGED <<stepperVars, bgVars, liVars, ctxVars, mapVars, tsVars, ppVars, clVars>>

SpecMarker == InitMarker /\ [][NextMarker]_vars

\* A MapPopup under a loaded Map.
InitPopup ==
    /\ PopupInit
    /\ StepperIdle
    /\ ButtonGroupIdle
    /\ ListIdle
    /\ CtxIdle
    /\ MapIdle
    /\ ToasterIdle
    /\ MarkerIdle
    /\ ClustersIdle

NextPopup ==
    /\ PopupNext
    /\ UNCHANGED <<stepperVars, bgVars, liVars, ctxVars, mapVars, tsVars, mkVars, clVars>>

SpecPopup == InitPopup /\ [][NextPopup]_vars

\* Several MapClusterLayers under one loaded Map.
InitClusters ==
    /\ ClustersInit
    /\ StepperIdle
    /\ ButtonGroupIdle
    /\ ListIdle
    /\ CtxIdle
    /\ MapIdle
    /\ ToasterIdle
    /\ MarkerIdle
    /\ PopupIdle

NextClusters ==
    /\ ClustersNext
    /\ UNCHANGED <<stepperVars, bgVars, liVars, ctxVars, mapVars, tsVars, mkVars, ppVars>>

SpecClusters == InitClusters /\ [][NextClusters]_vars

\* ------------------------------------------------------------------------
\* Properties
\* ------------------------------------------------------------------------

\* C1: a Map creates its engine exactly once per mount, at most one engine
\* is live at any time, and after unmount remove() has been called on it
\* and mapInstance.current is null.
C1_SingleEngine ==
    /\ engineCreated - engineRemoved \in {0, 1}
    /\ engineCreated = mounts
    /\ mapMounted => (mapInstance = "engine" /\ engineCreated - engineRemoved = 1)
    /\ ~mapMounted => (mapInstance = "null" /\ engineRemoved = engineCreated)

\* A Map that was mounted, loaded, re-rendered with the engine in its
\* context and then unmounted.
C1_Witness ==
    /\ ~mapMounted /\ mounts = 1 /\ engineRemoved = 1
    /\ engine.loaded /\ mapCtx.map = "engine"

\* C2: the effect cleanups of MapRoute and MapClusterLayer never throw, in
\* whatever order the teardown runs, and after the cleanup of a component
\* none of its layer and source ids is left in the engine.
C2_CleanupRemovesWithoutThrowing ==
    /\ cleanupErrors = {}
    /\ ~route.mounted =>
          /\ RouteLayerId(RouteId) \notin engine.layers
          /\ RouteSourceId(RouteId) \notin engine.sources
    /\ ~cluster.mounted =>
          /\ ClusterLayerIds \cap engine.layers = {}
          /\ ClusterSourceId \notin engine.sources

\* C3: no error escapes the Map cleanup; console.error is called exactly
\* when remove() threw an Error whose message lacks "aborted"; and whatever
\* remove() did, the handle is null and isLoaded is false afterwards.
C3_TeardownSuppressed ==
    /\ uncaught = FALSE
    /\ (~mapMounted /\ removeOutcome # "none") =>
          /\ mapInstance = "null"
          /\ isLoaded = FALSE
          /\ errLogged <=> removeOutcome = "error"

\* A Map whose remove() threw the benign aborted Error during unmount.
C3_Witness ==
    /\ ~mapMounted /\ pending = <<>>
    /\ removeOutcome = "aborted" /\ ~errLogged /\ mapInstance = "null"

\* Whether listener l was registered by the effect run that is current.
CurrentListener(l) ==
    /\ l.owner = "route" => (route.mounted /\ route.armed /\ l.run = route.run)
    /\ l.owner = "cluster" => (cluster.mounted /\ cluster.armed /\ l.run = cluster.run)

\* C4: on a live Map, every listener registered on the engine belongs to
\* the current effect run of a mounted MapRoute or MapClusterLayer, and an
\* engine event calls each user callback at most once and only in the
\* version of the current effect run.
C4_ListenersDestroyedWithComponent ==
    (mapMounted /\ pending = <<>>) =>
        /\ \A l \in engine.listeners : CurrentListener(l)
        /\ \A l \in invoked : CurrentListener(l)
        /\ \A l1, l2 \in invoked : l1.fn = l2.fn => l1 = l2

\* C5: a StepperItem with value v shows active iff activeStep = v,
\* completed iff activeStep > v, disabled iff its disabled prop is true or
\* activeStep < v; an item not disabled by prop shows exactly one of them.
C5_StepperItemStates ==
    \A v \in Steps :
        /\ stepAttrs[v].active <=> activeStep = v
        /\ stepAttrs[v].completed <=> activeStep > v
        /\ stepAttrs[v].disabled <=> (itemDisabled[v] = "true" \/ activeStep < v)
        /\ itemDisabled[v] # "true" =>
              Cardinality({k \in {"active", "completed", "disabled"} :
                             stepAttrs[v][k]}) = 1

\* The value prop moved the Stepper to step 2: step 1 is completed, step 3
\* disabled by position and step 0 disabled by prop although completed.
C5_Witness ==
    /\ stepperLast = "sync" /\ activeStep = 2
    /\ stepAttrs[2].active /\ stepAttrs[1].completed /\ stepAttrs[3].disabled
    /\ itemDisabled[0] = "true" /\ stepAttrs[0].disabled /\ stepAttrs[0].completed

\* C6: once the synchronising effect has run after a change of the value
\* prop (or the change left no effect to run, the value read being the
\* same), the active step every StepperItem sees is the value prop,
\* whatever was clicked before; a Stepper mounted without a value prop
\* starts at 0.
C6_ValueDrivesActiveStep ==
    /\ (stepperLast = "sync" \/ (stepperLast = "value" /\ ~syncPending)) =>
          /\ activeStep = StepperValue(valueProp)
          /\ \A v \in Steps : stepAttrs[v].active <=> v = StepperValue(valueProp)
    /\ (stepperLast = "mount" /\ valueProp = NoValue) =>
          /\ activeStep = 0
          /\ stepAttrs[0].active

\* A click had moved the active step to 1, then the value prop moved it to 3.
C6_Witness ==
    /\ stepperLast = "sync" /\ onChangeArg = 1
    /\ valueProp = 3 /\ activeStep = 3

\* The rendered child elements of the group, in order.
RenderedButtons == LET IsButton(n) == n.kind = "button" IN SelectSeq(bgOut, IsButton)

LeftRounding == {"rounded-l-md"} \cup ClassIf(Truthy(bgPill), {"rounded-l-full"})
RightRounding == {"rounded-r-md"} \cup ClassIf(Truthy(bgPill), {"rounded-r-full"})
SideRounding == {"rounded-l-md", "rounded-l-full", "rounded-r-md", "rounded-r-full"}

\* C7: the first rendered child element has the left rounding classes, the
\* last one the right rounding classes (a sole one both), and every one
\* strictly between them has rounded-none and no side rounding class.
C7_FirstAndLastRounded ==
    LET b == RenderedButtons
    IN Len(b) >= 1 =>
         /\ LeftRounding \subseteq b[1].classes
         /\ RightRounding \subseteq b[Len(b)].classes
         /\ \A i \in 2..(Len(b) - 1) :
               /\ "rounded-none" \in b[i].classes
               /\ b[i].classes \cap SideRounding = {}

\* Whether the probe position has an ancestor of type t.
Inside(t) == \E i \in 1..Len(ctxPath) : ctxPath[i].type = t

\* C8: MarkerPopup and MarkerTooltip throw their "must be used within a
\* MapMarker" Error exactly when no enclosing MapMarker provides a context.
C8_MarkerChildrenNeedMarker ==
    /\ leafKind = "MarkerPopup" =>
          (leafResult = "MarkerPopup must be used within a MapMarker"
             <=> ~Inside("MapMarker"))
    /\ leafKind = "MarkerTooltip" =>
          (leafResult = "MarkerTooltip must be used within a MapMarker"
             <=> ~Inside("MapMarker"))

\* A MarkerPopup rendered without a MapMarker above it has thrown.
C8_Witness ==
    /\ leafKind = "MarkerPopup" /\ ~Inside("MapMarker")
    /\ leafResult = "MarkerPopup must be used within a MapMarker"

\* The context value of the nearest enclosing Map.
RECURSIVE NearestMap(_)
NearestMap(path) ==
    IF path[Len(path)].type = "Map" THEN MapProvides(path[Len(path)])
    ELSE NearestMap(SubSeq(path, 1, Len(path) - 1))

\* C9: useMap throws "useMap must be used within a Map component" when its
\* caller has no enclosing Map, and returns the context value of the
\* enclosing Map otherwise.
C9_UseMapThrowsOutsideMap ==
    leafKind = "useMap" =>
        IF Inside("Map")
        THEN leafResult = "rendered" /\ leafCtx = NearestMap(ctxPath)
        ELSE leafResult = "useMap must be used within a Map component"

\* C10: a ListItem shows data-selected and the selected classes iff its
\* selected prop is true, data-disabled and the disabled classes iff its
\* disabled prop is true, whatever the other props are.
C10_ListItemStates ==
    \A i \in Items :
        /\ liOut[i].dataSelected <=> liProps[i].selected = "true"
        /\ SelectedClasses \subseteq liOut[i].classes <=> liProps[i].selected = "true"
        /\ SelectedClasses \cap liOut[i].classes # {} <=> liProps[i].selected = "true"
        /\ liOut[i].dataDisabled <=> liProps[i].disabled = "true"
        /\ DisabledClasses \subseteq liOut[i].classes <=> liProps[i].disabled = "true"
        /\ DisabledClasses \cap liOut[i].classes # {} <=> liProps[i].disabled = "true"

\* An item that is selected and disabled at once, rendered through Slot.
C10_Witness ==
    \E i \in Items :
        /\ liProps[i].selected = "true" /\ liProps[i].disabled = "true"
        /\ liProps[i].asChild = "true" /\ liOut[i].comp = "Slot"
        /\ liOut[i].dataSelected /\ liOut[i].dataDisabled

\* C11: without a theme prop the engine gets the ambient theme, "system"
\* when the provider has none; without an icons prop it gets the five
\* status icons; every one of theme, icons, className and style that is
\* passed as a prop replaces the default.
C11_ToasterForwards ==
    /\ "theme" \notin tsProps.given =>
          tsOut.theme = (IF tsAmbient = "undef" THEN "system" ELSE tsAmbient)
    /\ "icons" \notin tsProps.given =>
          /\ DOMAIN tsOut.icons = Statuses
          /\ tsOut.icons = DefaultIcons
    /\ "className" \notin tsProps.given => tsOut.className = DefaultToasterClasses
    /\ "style" \notin tsProps.given => tsOut.style = DefaultToasterStyle
    /\ \A k \in tsProps.given : tsOut[k] = ToasterPropValue(tsProps, k)

\* A Toaster under a dark ambient theme that is passed theme="light" and
\* its own icons.
C11_Witness ==
    /\ tsAmbient = "dark" /\ tsProps.given = {"theme", "icons"}
    /\ tsProps.theme = "light" /\ tsOut.theme = "light"
    /\ tsOut.icons = CallerIcons /\ tsOut.style = DefaultToasterStyle

\* C17: a click on a StepperItem inside a Stepper that is not disabled
\* (disabled prop not true and active step >= its value) makes its value
\* the active step and calls onChange once with it; a click on a disabled
\* item, or on an item outside any Stepper, changes nothing and calls
\* nothing; so no click ever increases the active step.
C17_ClickMovesOnlyBack ==
    [][stepperLast' = "click" =>
         LET v == lastClicked'
             wasDisabled == itemDisabled[v] = "true" \/ activeStep < v
         IN /\ IF inStepper /\ ~wasDisabled
               THEN activeStep' = v /\ onChangeCalls' = 1 /\ onChangeArg' = v
               ELSE activeStep' = activeStep /\ onChangeCalls' = 0
                    /\ onChangeArg' = onChangeArg
            /\ activeStep' <= activeStep]_vars

\* A click took the Stepper from step 3 back to step 1.
C17_Witness ==
    /\ inStepper /\ stepperLast = "click" /\ lastClicked = 1
    /\ activeStep = 1 /\ onChangeCalls = 1 /\ valueProp = 3

\* A click on step 0 of a StepperItem that has no Stepper above it.
C17_WitnessOutside ==
    /\ ~inStepper /\ stepperLast = "click" /\ lastClicked = 0
    /\ onChangeCalls = 0 /\ ~stepAttrs[0].disabled

C16_ChildrenSeeLiveEngine ==
    /\ (mapMounted /\ (route.mounted \/ cluster.mounted)) =>
          (isLoaded /\ mapCtx.isLoaded)
    /\ (mapMounted /\ mapCtx.isLoaded) =>
          /\ mapCtx.map = "engine" /\ mapInstance = "engine"
          /\ ~engine.styleGone /\ engine.loaded
    /\ isLoaded => (mapMounted /\ mapInstance = "engine" /\ ~engine.styleGone)

\* The engine of a torn-down Map delivered 'load' afterwards.
C16_Witness ==
    /\ ~mapMounted /\ engine.loadedLate /\ engineRemoved = 1
    /\ ~isLoaded /\ mapInstance = "null"

\* C18: a mounted MapRoute whose effect has run under a loaded Map has its
\* source route-<id> and its layer route-layer-<id> in the engine.
C18_RouteLayerPersists ==
    (mapMounted /\ route.mounted /\ route.armed) =>
        /\ RouteSourceId(route.id) \in engine.sources
        /\ RouteLayerId(route.id) \in engine.layers

\* C12: after n consecutive clicks on the marker element, counted from a
\* closed popup and with no other close event in between, the MarkerPopup
\* is on the map and marked open iff n is odd.
C12_ClickToggles ==
    (mp.mounted /\ mp.clicks > 0) =>
        /\ mp.onMap = (mp.clicks % 2 = 1)
        /\ mp.isOpen = (mp.clicks % 2 = 1)

\* C13: a MapMarker has at most one engine marker on the map, also between
\* the cleanup and the effect of one commit; while mounted it is the one
\* markerRef holds; after the unmount none is left and both refs are null.
C13_AtMostOneMarker ==
    /\ Cardinality(mapMarkers) <= 1
    /\ mkPeak <= 1
    /\ mk.mounted => \A m \in mapMarkers : m.id = mk.markerRef
    /\ ~mk.mounted => (mapMarkers = {} /\ mk.markerRef = 0 /\ mk.elRef = 0)

\* A MapMarker went through three effect runs and was unmounted.
C13_Witness ==
    /\ ~mk.mounted /\ markersMade = 3 /\ mkPeak = 1 /\ mapMarkers = {}

\* C14: once the render asked for by the effect is done, and unless the
\* user dragged the marker since, the engine marker held by markerRef is
\* on the map at the [longitude, latitude] of the props, and the context
\* value handed to the children, like the marker a MarkerPopup child has
\* bound, is that marker and its element.
C14_PositionFollowsProps ==
    (mk.mounted /\ ~mk.dirty) =>
        /\ \E m \in mapMarkers :
              /\ m.id = mk.markerRef
              /\ ~mk.dragged => m.pos = mk.pos
        /\ mk.ctx.rendered
        /\ mk.ctx.marker = mk.markerRef
        /\ mk.ctx.markerElement = mk.elRef
        /\ mp.mounted => (mp.boundMarker = mk.markerRef /\ mp.boundEl = mk.elRef)

\* The coordinates changed from [0, 0] to [1, 1] in the second effect run
\* of a mounted MapMarker, and the render it asked for is done.
C14_Witness ==
    /\ mk.mounted /\ ~mk.dirty /\ mk.runs = 2 /\ mk.pos = <<1, 1>>
    /\ mapMarkers = {[id |-> 2, pos |-> <<1, 1>>]}
    /\ mk.ctx.marker = 2 /\ mp.boundMarker = 2

\* C19: once the effect of a mounted MapPopup has created the container
\* and added the popup to the map, the children are rendered into that
\* container; a MapPopup has at most one engine popup on the map at any
\* time and none after its unmount.
C19_MapPopupShowsChildren ==
    /\ (pp.mounted /\ pp.container # 0) => pp.shownIn = pp.container
    /\ Cardinality(mapPopups) <= 1
    /\ ppPeak <= 1
    /\ ~pp.mounted => mapPopups = {}

\* C20: no effect run of a MapClusterLayer calls addSource / addLayer for
\* an id that is in the engine already, and a mounted MapClusterLayer whose
\* effect has run keeps its source and its three layers in the engine.
C20_NoDuplicateAdd ==
    /\ ~clDupAdd
    /\ clErrors = {}
    /\ \A i \in ClusterLayers :
          (cls[i].mounted /\ cls[i].armed) =>
              /\ ClusterSourceId \in clEngine.sources
              /\ ClusterLayerIds \subseteq clEngine.layers

=============================================================================
